---- MODULE Spec2Model ----
(***************************************************************************)
(* Sales-order monitor (so_mapper.py): the status transition tracker and   *)
(* the notification decision of main(), over successive polling runs that  *)
(* share one status file.                                                  *)
(*                                                                         *)
(* JSON / Python values are records [kind, n, s]:                          *)
(*   kind "int"   : the integer n                                          *)
(*   kind "float" : the float n/10 (n counts tenths)                       *)
(*   kind "str"   : the string s                                           *)
(*   kind "none"  : None / a missing key                                   *)
(***************************************************************************)
EXTENDS Integers, Sequences, FiniteSets, TLC

\* ------------------------------------------------------------------ bounds
\* longest list of documents the fetch of one run returns (before dedup)
MaxDocs == 2
\* integers, and tenths of floats, fed to normalize_status on its own
MaxRaw == 4
MaxTenths == 25

\* ------------------------------------------------------------------ values
JInt(n) == [kind |-> "int", n |-> n, s |-> ""]
JFloat(t) == [kind |-> "float", n |-> t, s |-> ""]
JStr(x) == [kind |-> "str", n |-> 0, s |-> x]
None == [kind |-> "none", n |-> 0, s |-> ""]

CANCELLED == JInt(-1)
SEEN == JStr("seen")

\* strings a status may arrive as: decimal literals and other text
NumericStrings == {"0", "1", "2", "-1", "3", " 1 "}
OtherStrings == {"seen", "", "1.5", "abc", "cancelled"}

\* every value normalize_status is tried on
RawValues ==
    {JInt(n) : n \in (0 - MaxRaw)..MaxRaw}
        \cup {JFloat(t) : t \in (0 - MaxTenths)..MaxTenths}
        \cup {JStr(x) : x \in NumericStrings \cup OtherStrings}
        \cup {None}

\* int(str): the decimal literal the string holds (surrounding blanks allowed)
StrToInt(x) ==
    CASE x = "0" -> [ok |-> TRUE, n |-> 0]
      [] x = "1" -> [ok |-> TRUE, n |-> 1]
      [] x = " 1 " -> [ok |-> TRUE, n |-> 1]
      [] x = "2" -> [ok |-> TRUE, n |-> 2]
      [] x = "3" -> [ok |-> TRUE, n |-> 3]
      [] x = "-1" -> [ok |-> TRUE, n |-> 0 - 1]
      [] OTHER -> [ok |-> FALSE, n |-> 0]

\* int(val): ints as they are, floats truncated toward zero, strings parsed,
\* None raises (ok = FALSE)
PyInt(val) ==
    CASE val.kind = "int" -> [ok |-> TRUE, n |-> val.n]
      [] val.kind = "float" ->
            [ok |-> TRUE,
             n |-> IF val.n >= 0 THEN val.n \div 10 ELSE 0 - ((0 - val.n) \div 10)]
      [] val.kind = "str" -> StrToInt(val.s)
      [] OTHER -> [ok |-> FALSE, n |-> 0]

\* normalize_status without the external code 2
normalize_status_no2(val) ==
    LET r == PyInt(val)
    IN  IF ~r.ok THEN None
        ELSE IF r.n \in {0, 1, 0 - 1} THEN JInt(r.n)
        ELSE None

\* normalize_status without the check of the range of n
normalize_status_anyint(val) ==
    LET r == PyInt(val)
    IN  IF ~r.ok THEN None
        ELSE IF r.n = 2 THEN JInt(0 - 1)
        ELSE JInt(r.n)

normalize_status(val) ==
    LET r == PyInt(val)
    IN  IF ~r.ok THEN None
        ELSE IF r.n = 2 THEN JInt(0 - 1)
        ELSE IF r.n \in {0, 1, 0 - 1} THEN JInt(r.n)
        ELSE None

\* ------------------------------------------------------- lines of a document
\* float(str), in tenths: the decimal literal the string holds
StrToFloat(x) ==
    CASE x = "0" -> [ok |-> TRUE, t |-> 0]
      [] x = "1" -> [ok |-> TRUE, t |-> 10]
      [] x = " 1 " -> [ok |-> TRUE, t |-> 10]
      [] x = "2" -> [ok |-> TRUE, t |-> 20]
      [] x = "3" -> [ok |-> TRUE, t |-> 30]
      [] x = "-1" -> [ok |-> TRUE, t |-> 0 - 10]
      [] x = "1.5" -> [ok |-> TRUE, t |-> 15]
      [] OTHER -> [ok |-> FALSE, t |-> 0]

\* bool(val) is False: None, 0, 0.0 and the empty string
Falsy(val) ==
    \/ val.kind = "none"
    \/ val.kind \in {"int", "float"} /\ val.n = 0
    \/ val.kind = "str" /\ val.s = ""

\* float(val or 0), in tenths; ok = FALSE when float() raises
FloatOr0(val) ==
    IF Falsy(val) THEN [ok |-> TRUE, t |-> 0]
    ELSE CASE val.kind = "int" -> [ok |-> TRUE, t |-> 10 * val.n]
           [] val.kind = "float" -> [ok |-> TRUE, t |-> val.n]
           [] OTHER -> StrToFloat(val.s)

\* the line names the documents carry, and those among them that one of
\* TRANSPORT_NAME_PATTERNS matches once stripped and lower-cased
LineNames == {"Panel 605W", "Inversor", "Transporte", " shipping costs ",
              "Transporte especial"}
TransportNames == {"Transporte", " shipping costs "}

is_transport_name(name) == name \in TransportNames

\* a float, n counts hundredths
Amount(h) == [kind |-> "amount", n |-> h, s |-> ""]
Dash == JStr("-")

\* some line of the list makes float() raise in iter_document_lines
LinesRaise(products) ==
    \E i \in 1..Len(products) :
        ~FloatOr0(products[i].units).ok \/ ~FloatOr0(products[i].price).ok

\* list(iter_document_lines(doc)), for a list on which float() does not raise
iter_document_lines(products) ==
    [i \in 1..Len(products) |->
        [name |-> products[i].name,
         qty |-> FloatOr0(products[i].units).t,
         unit_price |-> FloatOr0(products[i].price).t,
         amount |-> FloatOr0(products[i].price).t * FloatOr0(products[i].units).t,
         is_transport |-> is_transport_name(products[i].name)]]

\* ------------------------------------------------------------------ inputs
Ids == {"A1", "B2"}

\* the lines of the documents of a run: one material line and one transport
\* line, or a material line whose quantity is not a number
GoodProducts ==
    <<[name |-> "Panel 605W", units |-> JInt(40), price |-> JInt(100)],
      [name |-> "Transporte", units |-> JInt(1), price |-> JInt(250)]>>
BadProducts ==
    <<[name |-> "Panel 605W", units |-> JStr("abc"), price |-> JInt(100)]>>

\* raw status codes the documents of a run carry
DocStatuses == {JInt(0), JInt(1), JInt(0 - 1), JInt(2), JInt(3)}

\* a fetched document: its id ("" when it has none) and its raw status
DocKinds ==
    {[id |-> i, status |-> st, products |-> GoodProducts] :
        i \in Ids, st \in DocStatuses}
        \cup {[id |-> i, status |-> JInt(0), products |-> BadProducts] : i \in Ids}
        \cup {[id |-> "", status |-> JInt(0), products |-> GoodProducts]}

ArgSets ==
    [send_email : BOOLEAN, email_new_accepted : BOOLEAN,
     email_new_any : BOOLEAN, limit : 0..MaxDocs]

SeqsUpTo(S, n) == UNION {[1..k -> S] : k \in 0..n}

\* ------------------------------------------------------------------ state
VARIABLES
    status_file,   \* the file at --status-file: [exists, entries]
    pc,            \* "idle" | "fetch" | "loop" | "done" | "aborted"
    args,          \* the parsed command line of the current run
    docs,          \* the documents the loop of main() goes through
    idx,           \* 1-based position of the loop in docs
    status_map,    \* the in-memory dict of the current run
    last,          \* the decision taken for the document processed last
    processed,     \* the documents fully processed by the current run
    sends,         \* emails handed to send_email by the current run
    lastObs,       \* per id, the status it had in the last completed run
    exc,           \* the exception that has left main(), "" when none has
    evHist,        \* per id, the events completed runs have given it
    nval, npc, nres  \* a function on its own: input, position, result

vars == <<status_file, pc, args, docs, idx, status_map, last, processed,
          sends, lastObs, exc, evHist, nval, npc, nres>>

mainVars == <<status_file, pc, args, docs, idx, status_map, last, processed,
              sends, lastObs, exc, evHist>>
normVars == <<nval, npc, nres>>

EmptyMap == [k \in {} |-> None]
NoFile == [exists |-> FALSE, entries |-> {}]
NoArgs == [send_email |-> FALSE, email_new_accepted |-> FALSE,
           email_new_any |-> FALSE, limit |-> 0]
NoLast == [id |-> "", raw |-> None, stored |-> None, first_seen |-> FALSE,
           cur |-> None, prev |-> None, reason |-> "None", sent |-> FALSE]
Absent == JStr("absent")
NoHist == [i \in Ids |-> [cr |-> <<>>, pre |-> {}]]

\* ------------------------------------------------------------ status file
load_status_map(f) ==
    IF ~f.exists THEN EmptyMap
    ELSE [k \in {e.key : e \in f.entries} |->
            (CHOOSE e \in f.entries : e.key = k).value]

\* save_status_map writing an empty object
save_status_map_empty(m) == [exists |-> TRUE, entries |-> {}]

save_status_map(m) ==
    [exists |-> TRUE,
     entries |-> {[key |-> k, value |-> m[k]] : k \in DOMAIN m}]

\* dict.get(key, None)
DictGet(m, k) == IF k \in DOMAIN m THEN m[k] ELSE None

\* an assignment that rebuilds the dict from the one key
DictSet_only(m, k, v) == [x \in {k} |-> v]

\* m[key] = v
DictSet(m, k, v) ==
    [x \in (DOMAIN m) \cup {k} |-> IF x = k THEN v ELSE m[x]]

\* ------------------------------------------------------------------ dedup
_doc_id(d) == d.id

RECURSIVE UniqFrom(_, _, _)
UniqFrom(ds, i, acc) ==
    IF i > Len(ds) THEN acc
    ELSE LET did == _doc_id(ds[i])
         IN  IF did # "" /\ did \notin {_doc_id(acc[j]) : j \in 1..Len(acc)}
             THEN UniqFrom(ds, i + 1, Append(acc, ds[i]))
             ELSE UniqFrom(ds, i + 1, acc)

\* no de-duplication: the fetched list as it is
Dedup_all(ds) == ds

Dedup(ds) == UniqFrom(ds, 1, <<>>)

\* the orders docs.sort(key=date, reverse=True) can leave a list in: the
\* dates are inputs, so every arrangement of the list
Arrangements(ds) ==
    {[i \in 1..Len(ds) |-> ds[p[i]]] :
        p \in {q \in [1..Len(ds) -> 1..Len(ds)] :
                 \A a, b \in 1..Len(ds) : q[a] = q[b] => a = b}}

\* docs[:limit]
Truncate(ds, limit) == SubSeq(ds, 1, IF limit < Len(ds) THEN limit ELSE Len(ds))

\* ----------------------------------------------------- decision of main()
\* send_reason that asks for a recognized status before it calls a document new
send_reason_new_if_status(first_seen, prev_status, cur_status, a) ==
    IF first_seen /\ cur_status # None THEN "NEW_ANY"
    ELSE IF prev_status # None /\ cur_status # None
         THEN IF prev_status = CANCELLED /\ cur_status \in {JInt(0), JInt(1)}
              THEN "REOPENED_TO_SALE"
              ELSE IF prev_status \in {JInt(0), JInt(1)} /\ cur_status = CANCELLED
              THEN "CANCELLED"
              ELSE "None"
         ELSE IF prev_status = None /\ cur_status # None /\ ~first_seen
              THEN IF a.email_new_accepted /\ cur_status \in {JInt(0), JInt(1)}
                   THEN "NEW_ACCEPTED"
                   ELSE IF a.email_new_any THEN "NEW_ANY"
                   ELSE "None"
              ELSE "None"

\* send_reason that reopens on Accepted only
send_reason_reopen_accepted(first_seen, prev_status, cur_status, a) ==
    IF first_seen THEN "NEW_ANY"
    ELSE IF prev_status # None /\ cur_status # None
         THEN IF prev_status = CANCELLED /\ cur_status = JInt(1)
              THEN "REOPENED_TO_SALE"
              ELSE IF prev_status \in {JInt(0), JInt(1)} /\ cur_status = CANCELLED
              THEN "CANCELLED"
              ELSE "None"
         ELSE IF prev_status = None /\ cur_status # None
              THEN IF a.email_new_accepted /\ cur_status \in {JInt(0), JInt(1)}
                   THEN "NEW_ACCEPTED"
                   ELSE IF a.email_new_any THEN "NEW_ANY"
                   ELSE "None"
              ELSE "None"

\* send_reason that cancels whatever the previous status was
send_reason_cancel_always(first_seen, prev_status, cur_status, a) ==
    IF first_seen THEN "NEW_ANY"
    ELSE IF prev_status # None /\ cur_status # None
         THEN IF prev_status = CANCELLED /\ cur_status \in {JInt(0), JInt(1)}
              THEN "REOPENED_TO_SALE"
              ELSE IF cur_status = CANCELLED
              THEN "CANCELLED"
              ELSE "None"
         ELSE IF prev_status = None /\ cur_status # None
              THEN IF a.email_new_accepted /\ cur_status \in {JInt(0), JInt(1)}
                   THEN "NEW_ACCEPTED"
                   ELSE IF a.email_new_any THEN "NEW_ANY"
                   ELSE "None"
              ELSE "None"

\* send_reason whose optional flags do not look at the previous status
send_reason_flags_any_prev(first_seen, prev_status, cur_status, a) ==
    IF first_seen THEN "NEW_ANY"
    ELSE LET classic ==
                 IF prev_status # None /\ cur_status # None
                 THEN IF prev_status = CANCELLED /\ cur_status \in {JInt(0), JInt(1)}
                      THEN "REOPENED_TO_SALE"
                      ELSE IF prev_status \in {JInt(0), JInt(1)} /\ cur_status = CANCELLED
                      THEN "CANCELLED"
                      ELSE "None"
                 ELSE "None"
         IN  IF classic = "None" /\ cur_status # None
             THEN IF a.email_new_accepted /\ cur_status \in {JInt(0), JInt(1)}
                  THEN "NEW_ACCEPTED"
                  ELSE IF a.email_new_any THEN "NEW_ANY"
                  ELSE "None"
             ELSE classic

send_reason(first_seen, prev_status, cur_status, a) ==
    IF first_seen THEN "NEW_ANY"
    ELSE LET classic ==
                 IF prev_status # None /\ cur_status # None
                 THEN IF prev_status = CANCELLED /\ cur_status \in {JInt(0), JInt(1)}
                      THEN "REOPENED_TO_SALE"
                      ELSE IF prev_status \in {JInt(0), JInt(1)} /\ cur_status = CANCELLED
                      THEN "CANCELLED"
                      ELSE "None"
                 ELSE "None"
         IN  IF classic = "None" /\ prev_status = None /\ cur_status # None
             THEN IF a.email_new_accepted /\ cur_status \in {JInt(0), JInt(1)}
                  THEN "NEW_ACCEPTED"
                  ELSE IF a.email_new_any THEN "NEW_ANY"
                  ELSE "None"
             ELSE classic

\* an update that leaves out the neutral marker
UpdateStatus_no_marker(m, doc_id, cur_status, first_seen) ==
    IF cur_status # None THEN DictSet(m, doc_id, cur_status) ELSE m

\* an update that writes the entry of a first-seen order only
UpdateStatus_first_only(m, doc_id, cur_status, first_seen) ==
    IF first_seen
    THEN DictSet(m, doc_id, IF cur_status # None THEN cur_status ELSE SEEN)
    ELSE m

\* the update of the known status after the decision
UpdateStatus(m, doc_id, cur_status, first_seen) ==
    IF cur_status # None THEN DictSet(m, doc_id, cur_status)
    ELSE IF first_seen THEN DictSet(m, doc_id, SEEN)
    ELSE m

\* a pass that sends for every document once sending is enabled
Decide_send_always(m, doc, a) ==
    LET doc_id == _doc_id(doc)
        cur_status == normalize_status(doc.status)
        prev_status == normalize_status(DictGet(m, doc_id))
        first_seen == doc_id \notin DOMAIN m
        reason == send_reason(first_seen, prev_status, cur_status, a)
    IN  [id |-> doc_id, raw |-> doc.status,
         stored |-> IF first_seen THEN Absent ELSE m[doc_id],
         first_seen |-> first_seen, cur |-> cur_status, prev |-> prev_status,
         reason |-> reason, sent |-> a.send_email]

\* one pass of the loop body over one document
Decide(m, doc, a) ==
    LET doc_id == _doc_id(doc)
        cur_status == normalize_status(doc.status)
        prev_status == normalize_status(DictGet(m, doc_id))
        first_seen == doc_id \notin DOMAIN m
        reason == send_reason(first_seen, prev_status, cur_status, a)
    IN  [id |-> doc_id, raw |-> doc.status,
         stored |-> IF first_seen THEN Absent ELSE m[doc_id],
         first_seen |-> first_seen, cur |-> cur_status, prev |-> prev_status,
         reason |-> reason, sent |-> a.send_email /\ reason # "None"]

\* a save inside the loop, after every document
FileAfterDoc_each(f, m, isLast) == save_status_map(m)

\* the file after the loop body has run on docs[i]: written once, after the
\* loop has gone through every document
FileAfterDoc(f, m, isLast) == IF isLast THEN save_status_map(m) ELSE f

\* ----------------------------------------------------------------- actions
Init ==
    /\ status_file = NoFile
    /\ pc = "idle"
    /\ args = NoArgs
    /\ docs = <<>>
    /\ idx = 0
    /\ status_map = EmptyMap
    /\ last = NoLast
    /\ processed = <<>>
    /\ sends = 0
    /\ lastObs = [i \in Ids |-> Absent]
    /\ exc = ""
    /\ evHist = NoHist
    /\ nval = None
    /\ npc = "off"
    /\ nres = None

\* main() starts: the command line is parsed
StartRun(a) ==
    /\ pc \in {"idle", "done", "aborted"}
    /\ pc' = "fetch"
    /\ args' = a
    /\ docs' = <<>>
    /\ idx' = 0
    /\ status_map' = EmptyMap
    /\ last' = NoLast
    /\ processed' = <<>>
    /\ sends' = 0
    /\ exc' = ""
    /\ UNCHANGED <<status_file, lastObs, evHist, nval, npc, nres>>

\* every list the fetch of one run can return
FetchedLists == SeqsUpTo(DocKinds, MaxDocs)

\* what de-duplication and the sort by date leave of them
SortedLists == UNION {Arrangements(Dedup(fetched)) : fetched \in FetchedLists}

\* the fetch returns, the result is de-duplicated and sorted (sorted is
\* what that leaves), cut to --limit, and the status file is loaded
Fetch(sorted) ==
    /\ pc = "fetch"
    /\ LET ds == Truncate(sorted, args.limit)
       IN  IF ds = <<>>
           THEN /\ pc' = "done"
                /\ UNCHANGED <<docs, idx, status_map>>
           ELSE /\ pc' = "loop"
                /\ docs' = ds
                /\ idx' = 1
                /\ status_map' = load_status_map(status_file)
    /\ UNCHANGED <<status_file, args, last, processed, sends, lastObs,
                   exc, evHist, nval, npc, nres>>

\* the loop body on docs[idx], with lines that float() accepts and a send
\* that succeeds when one is made; after the last document the map is saved
\* and main() returns
ProcessStep ==
    /\ pc = "loop"
    /\ ~LinesRaise(docs[idx].products)
    /\ LET doc == docs[idx]
           dec == Decide(status_map, doc, args)
           m2 == UpdateStatus(status_map, dec.id, dec.cur, dec.first_seen)
           isLast == idx = Len(docs)
           done == Append(processed, doc)
       IN  /\ last' = dec
           /\ sends' = IF dec.sent THEN sends + 1 ELSE sends
           /\ status_map' = m2
           /\ processed' = done
           /\ status_file' = FileAfterDoc(status_file, m2, isLast)
           /\ IF isLast
              THEN /\ pc' = "done"
                   /\ idx' = idx
                   /\ lastObs' =
                        [i \in Ids |->
                            IF \E j \in 1..Len(done) : done[j].id = i
                            THEN normalize_status(
                                   (CHOOSE d \in {done[j] : j \in 1..Len(done)} :
                                      d.id = i).status)
                            ELSE lastObs[i]]
              ELSE /\ pc' = "loop"
                   /\ idx' = idx + 1
                   /\ UNCHANGED lastObs
    /\ UNCHANGED <<args, docs, exc, nval, npc, nres>>

ProcessDoc == ProcessStep /\ UNCHANGED evHist

\* the loop body on docs[idx] when float() raises on a quantity or a price
\* (line 617): the exception leaves the loop and main(), before the decision
\* on docs[idx] and before any save
RowsFail ==
    /\ pc = "loop"
    /\ LinesRaise(docs[idx].products)
    /\ pc' = "aborted"
    /\ exc' = "ValueError"
    /\ UNCHANGED <<status_file, args, docs, idx, status_map, last, processed,
                   sends, lastObs, evHist, nval, npc, nres>>

\* the loop body on docs[idx] when send_email raises: the exception leaves
\* main() before the status of docs[idx] is updated and before any save
SendFails ==
    /\ pc = "loop"
    /\ ~LinesRaise(docs[idx].products)
    /\ LET dec == Decide(status_map, docs[idx], args)
       IN  /\ dec.sent
           /\ last' = dec
           /\ sends' = sends + 1
    /\ pc' = "aborted"
    /\ exc' = "SMTP"
    /\ UNCHANGED <<status_file, args, docs, idx, status_map, processed,
                   lastObs, evHist, nval, npc, nres>>

\* the process is stopped between two documents
Crash ==
    /\ pc = "loop"
    /\ pc' = "aborted"
    /\ UNCHANGED <<status_file, args, docs, idx, status_map, last, processed,
                   sends, lastObs, exc, evHist, nval, npc, nres>>

Next ==
    \/ \E a \in ArgSets : StartRun(a)
    \/ \E sorted \in SortedLists : Fetch(sorted)
    \/ ProcessDoc
    \/ RowsFail
    \/ SendFails
    \/ Crash

Spec == Init /\ [][Next]_vars

\* --------------------------------------- normalize_status on its own
NormInit ==
    /\ status_file = NoFile
    /\ pc = "idle"
    /\ args = NoArgs
    /\ docs = <<>>
    /\ idx = 0
    /\ status_map = EmptyMap
    /\ last = NoLast
    /\ processed = <<>>
    /\ sends = 0
    /\ lastObs = [i \in Ids |-> Absent]
    /\ exc = ""
    /\ evHist = NoHist
    /\ nval \in RawValues
    /\ npc = "in"
    /\ nres = None

Normalize ==
    /\ npc = "in"
    /\ npc' = "out"
    /\ nres' = normalize_status(nval)
    /\ UNCHANGED <<nval, status_file, pc, args, docs, idx, status_map, last,
                   processed, sends, lastObs, exc, evHist>>

NormNext == Normalize

SpecNorm == NormInit /\ [][NormNext]_vars

\* ------------------------------------------------ the functions on their own
\* main() has not been started
MainIdle ==
    /\ status_file = NoFile
    /\ pc = "idle"
    /\ args = NoArgs
    /\ docs = <<>>
    /\ idx = 0
    /\ status_map = EmptyMap
    /\ last = NoLast
    /\ processed = <<>>
    /\ sends = 0
    /\ lastObs = [i \in Ids |-> Absent]
    /\ exc = ""
    /\ evHist = NoHist

Raised == JStr("ValueError")

\* ------------------------------------------------- the rows of one document
MaxLines == 2

LineKinds ==
    [name : LineNames,
     units : {JInt(2), JStr("1.5"), None, JStr("abc")},
     price : {JInt(3), JInt(0)}]

\* name.strip()
Strip(name) == IF name = " shipping costs " THEN "shipping costs" ELSE name

\* int(qty) of a float in tenths: towards zero
IntOfTenths(t) == IF t >= 0 THEN t \div 10 ELSE 0 - ((0 - t) \div 10)

RECURSIVE TransportTotal(_)
TransportTotal(products) ==
    IF products = <<>> THEN 0
    ELSE LET p == Head(products)
         IN  (IF is_transport_name(p.name)
              THEN FloatOr0(p.price).t * FloatOr0(p.units).t ELSE 0)
             + TransportTotal(Tail(products))

has_transport_line(products) ==
    \E i \in 1..Len(products) : is_transport_name(products[i].name)

extract_transport_amount_from_doc_total(products) ==
    Amount(TransportTotal(products))

extract_transport_amount_from_doc(products) ==
    IF has_transport_line(products) THEN Amount(TransportTotal(products))
    ELSE Dash

\* build_row, its columns that come from the line alone
build_row(line) ==
    [Material |-> IF Strip(line.name) = "" THEN "-" ELSE Strip(line.name),
     Cantidad |-> IntOfTenths(line.qty),
     Transporte |-> Dash]

\* lines 617-622: the rows of the material lines, the transport amount of the
\* document put on the first of them
DocRows(products) ==
    LET lines == iter_document_lines(products)
        material_lines == SelectSeq(lines, LAMBDA ln : ~ln.is_transport)
        transp_amount == extract_transport_amount_from_doc(products)
    IN  [i \in 1..Len(material_lines) |->
            [build_row(material_lines[i]) EXCEPT
                !.Transporte = IF i = 1 THEN transp_amount ELSE Dash]]

RowsInit ==
    /\ MainIdle
    /\ nval \in SeqsUpTo(LineKinds, MaxLines)
    /\ npc = "in"
    /\ nres = None

MakeRows ==
    /\ npc = "in"
    /\ npc' = "out"
    /\ nres' = IF LinesRaise(nval) THEN Raised ELSE DocRows(nval)
    /\ UNCHANGED <<nval, status_file, pc, args, docs, idx, status_map, last,
                   processed, sends, lastObs, exc, evHist>>

RowsNext == MakeRows

SpecRows == RowsInit /\ [][RowsNext]_vars

\* --------------------------------------------------- units per pallet
MaxQty == 1340

POSSIBLE_PACK_SIZES == <<36, 37, 35, 33, 31, 30>>

\* the texts that one of PACK_RULES matches, and the pack size it gives
PackRuleNames == {"AIKO 605"}
PackNames == {"Panel 605W", "AIKO 605"}

hint_units_per_pallet_by_pattern(name) ==
    IF name \in PackRuleNames THEN 360 ELSE 0

\* float(val) or 0.0 when it raises, in tenths
extract_units_per_pallet(val) ==
    CASE val.kind = "none" -> 0
      [] val.kind = "int" -> 10 * val.n
      [] val.kind = "float" -> val.n
      [] OTHER -> IF StrToFloat(val.s).ok THEN StrToFloat(val.s).t ELSE 0

\* int(qty % upp) for upp > 0 in tenths, 0 when qty is 0
LeftoverOf(qty, upp) == IF qty # 0 THEN ((10 * qty) % upp) \div 10 ELSE 0

exact_none(qty) == <<>>

\* the pack sizes that divide qty, in the order of the list
exact(qty) == SelectSeq(POSSIBLE_PACK_SIZES, LAMBDA p : qty % p = 0)

SeqMax(ps) == CHOOSE p \in {ps[i] : i \in 1..Len(ps)} :
                  \A j \in 1..Len(ps) : ps[j] <= p

preferred_max(ex) == SeqMax(ex)

preferred(ex) == IF \E i \in 1..Len(ex) : ex[i] = 36 THEN 36 ELSE SeqMax(ex)

\* the loop of lines 349-352 with ties going to the smaller pack
RECURSIVE closest_smaller(_, _, _)
closest_smaller(qty, ps, best) ==
    IF ps = <<>> THEN best
    ELSE LET p == Head(ps)
             rem == qty % p
             better == \/ best.p = 0
                       \/ rem < best.rem
                       \/ rem = best.rem /\ p < best.p
         IN  closest_smaller(qty, Tail(ps),
                             IF better THEN [p |-> p, rem |-> rem] ELSE best)

\* the loop of lines 349-352 over the pack sizes ps still to visit; best.p = 0
\* stands for best_p = None
RECURSIVE closest(_, _, _)
closest(qty, ps, best) ==
    IF ps = <<>> THEN best
    ELSE LET p == Head(ps)
             rem == qty % p
             better == \/ best.p = 0
                       \/ rem < best.rem
                       \/ rem = best.rem /\ 0 - p < 0 - best.p
         IN  closest(qty, Tail(ps),
                     IF better THEN [p |-> p, rem |-> rem] ELSE best)

PackResult(upp, conf, others, leftover) ==
    [upp |-> JFloat(upp), conf |-> conf, others |-> others,
     leftover |-> leftover]

infer_units_per_pallet(attr, name, qty) ==
    IF extract_units_per_pallet(attr) > 0
    THEN PackResult(extract_units_per_pallet(attr), "attr", <<>>,
                    LeftoverOf(qty, extract_units_per_pallet(attr)))
    ELSE IF hint_units_per_pallet_by_pattern(name) > 0
    THEN PackResult(hint_units_per_pallet_by_pattern(name), "pattern", <<>>,
                    LeftoverOf(qty, hint_units_per_pallet_by_pattern(name)))
    ELSE IF qty # 0
    THEN LET ex == exact(qty)
         IN  IF Len(ex) = 1
             THEN PackResult(10 * ex[1], "divisible", <<>>, 0)
             ELSE IF Len(ex) > 1
             THEN PackResult(10 * preferred(ex), "ambiguous_divisible",
                             SelectSeq(ex, LAMBDA p : p # preferred(ex)), 0)
             ELSE LET best == closest(qty, POSSIBLE_PACK_SIZES,
                                      [p |-> 0, rem |-> 0])
                  IN  PackResult(10 * best.p, "closest", <<>>, best.rem)
    ELSE PackResult(0, "unknown", <<>>, 0)

PalletInit ==
    /\ MainIdle
    /\ nval \in [attr : {None, JInt(40), JStr("abc"), JStr("1.5")},
                 name : PackNames,
                 qty : 0..MaxQty]
    /\ npc = "in"
    /\ nres = None

InferPallet ==
    /\ npc = "in"
    /\ npc' = "out"
    /\ nres' = infer_units_per_pallet(nval.attr, nval.name, nval.qty)
    /\ UNCHANGED <<nval, status_file, pc, args, docs, idx, status_map, last,
                   processed, sends, lastObs, exc, evHist>>

PalletNext == InferPallet

SpecPallet == PalletInit /\ [][PalletNext]_vars

\* ------------------------------------------------------------ power in watts
MaxTokens == 2

\* a text is the set of the 3-4 digit numbers it holds, each followed by a
\* W (w = TRUE) or not
Tokens == [n : {250, 450, 605}, w : BOOLEAN]
Texts == {t \in SUBSET Tokens : Cardinality(t) <= MaxTokens}
ProductTexts == {{}, {[n |-> 605, w |-> TRUE]}, {[n |-> 450, w |-> FALSE]}}

InRange(n) == 300 <= n /\ n <= 1000

SetMax(S) == CHOOSE n \in S : \A r \in S : r <= n

\* re.findall of the watt pattern on txt, the in-range numbers of it
WattCands(txt) == {t.n : t \in {u \in txt : u.w /\ InRange(u.n)}}

\* re.findall of the bare-number pattern on txt, the in-range numbers of it
GenericCands(txt) == {t.n : t \in {u \in txt : InRange(u.n)}}

\* the first loop over texts: the first text that holds a candidate decides
RECURSIVE FirstWattText(_)
FirstWattText(texts) ==
    IF texts = <<>> THEN {}
    ELSE IF WattCands(Head(texts)) # {} THEN WattCands(Head(texts))
    ELSE FirstWattText(Tail(texts))

\* val not in (None, "", []) and float(val) does not raise
UsablePower(val) ==
    /\ val.kind # "none"
    /\ ~(val.kind = "str" /\ val.s = "")
    /\ val.kind = "str" => StrToFloat(val.s).ok

extract_power_w(val, texts) ==
    IF UsablePower(val)
    THEN JFloat(IF val.kind = "int" THEN 10 * val.n
                ELSE IF val.kind = "float" THEN val.n
                ELSE StrToFloat(val.s).t)
    ELSE LET cands == FirstWattText(texts)
             generic == UNION {GenericCands(texts[i]) : i \in 1..Len(texts)}
         IN  IF cands # {} THEN JFloat(10 * SetMax(cands))
             ELSE IF generic # {} THEN JFloat(10 * SetMax(generic))
             ELSE JFloat(0)

PowerInit ==
    /\ MainIdle
    /\ nval \in [attr : {None, JInt(550), JStr("abc")},
                 item_name : Texts, item_sku : Texts,
                 name : ProductTexts, sku : ProductTexts]
    /\ npc = "in"
    /\ nres = None

ExtractPower ==
    /\ npc = "in"
    /\ npc' = "out"
    /\ nres' = extract_power_w(nval.attr, <<nval.item_name, nval.item_sku,
                                            nval.name, nval.sku>>)
    /\ UNCHANGED <<nval, status_file, pc, args, docs, idx, status_map, last,
                   processed, sends, lastObs, exc, evHist>>

PowerNext == ExtractPower

SpecPower == PowerInit /\ [][PowerNext]_vars

\* ------------------------------ the run over one fetched list, kept in nval
FetchedInit ==
    /\ MainIdle
    /\ nval \in FetchedLists
    /\ npc = "fetched"
    /\ nres = None

\* the fetch returns nval; lines 577-589 de-duplicate and sort it
FetchOf == \E sorted \in Arrangements(Dedup(nval)) : Fetch(sorted)

\* main() is started, for the first time
FirstRun(a) == pc = "idle" /\ StartRun(a)

FetchedNext ==
    \/ \E a \in ArgSets : FirstRun(a)
    \/ FetchOf
    \/ ProcessDoc
    \/ RowsFail
    \/ SendFails
    \/ Crash

SpecFetched == FetchedInit /\ [][FetchedNext]_vars

\* ------------------------------------- the runs, with the history of events
\* the last two of a sequence
LastTwo(sq) == IF Len(sq) <= 2 THEN sq ELSE SubSeq(sq, Len(sq) - 1, Len(sq))

\* the decision the run that is ending has made on id i, "None" for an id it
\* has not gone through: the ids of a run are different, so the decision on
\* a document is the one made from the map the run has loaded
RunDecision(i, done, f, a) ==
    IF \E j \in 1..Len(done) : done[j].id = i
    THEN Decide(load_status_map(f),
                CHOOSE d \in {done[j] : j \in 1..Len(done)} : d.id = i, a)
    ELSE [NoLast EXCEPT !.id = i]

\* the history of id i once the run has ended: cr holds the last two of its
\* CANCELLED ("C") and REOPENED ("R") events; pre holds "N" once it has had
\* a NEW event with status Cancelled and "S" once its "seen" marker has
\* been replaced by Cancelled with no event
HistAfter(h, dec) ==
    [cr |-> IF dec.reason = "CANCELLED" THEN LastTwo(Append(h.cr, "C"))
            ELSE IF dec.reason = "REOPENED_TO_SALE"
            THEN LastTwo(Append(h.cr, "R"))
            ELSE h.cr,
     pre |-> h.pre
             \cup (IF dec.reason \in {"NEW_ANY", "NEW_ACCEPTED"}
                      /\ dec.cur = CANCELLED THEN {"N"} ELSE {})
             \cup (IF dec.reason = "None" /\ dec.stored = SEEN
                      /\ dec.cur = CANCELLED THEN {"S"} ELSE {})]

\* the id whose history is kept: the loop treats every id alike
Tracked == "A1"

\* the loop body on docs[idx], the history of the tracked id brought up to
\* date when the run ends
ProcessDocTracked ==
    /\ ProcessStep
    /\ evHist' =
         IF idx = Len(docs)
         THEN [evHist EXCEPT ![Tracked] =
                  HistAfter(evHist[Tracked],
                            RunDecision(Tracked, processed', status_file, args))]
         ELSE evHist

\* the command lines that leave --limit above the length of every list: a
\* list cut by a lower limit is one of the shorter lists
UncutArgs == {a \in ArgSets : a.limit = MaxDocs}

HistNext ==
    \/ \E a \in UncutArgs : StartRun(a)
    \/ \E sorted \in SortedLists : Fetch(sorted)
    \/ ProcessDocTracked
    \/ RowsFail
    \/ SendFails
    \/ Crash

SpecHist == Init /\ [][HistNext]_vars

\* ------------------------------------------------------------------ claims
\* the step on which the loop body has gone through one more document
Processes == Len(processed') = Len(processed) + 1

Pending == JInt(0)
Accepted == JInt(1)
Sale == {Pending, Accepted}

\* the persisted map
Persisted == load_status_map(status_file)

\* C1: over completed runs that return the same order id again and again,
\* each transition of the order gives its event once: an id never observed
\* by a completed run gives NEW, Cancelled then Pending/Accepted gives
\* REOPENED, Pending/Accepted then Cancelled gives CANCELLED, and a run that
\* observes the order with the status the last completed run observed gives
\* no event.
C1_OnceForEachTransition ==
    [][Processes =>
        LET d == last'
            o == lastObs[d.id]
        IN  /\ (o = Absent => d.reason = "NEW_ANY")
            /\ (o = CANCELLED /\ d.cur \in Sale => d.reason = "REOPENED_TO_SALE")
            /\ (o \in Sale /\ d.cur = CANCELLED => d.reason = "CANCELLED")
            /\ (o # Absent /\ d.cur = o => d.reason = "None")]_vars

\* a completed run has polled again an order that the run before it had
\* already observed as Cancelled, and has given no event
C1_Witness ==
    /\ pc = "done"
    /\ last.id \in Ids
    /\ ~last.first_seen
    /\ last.stored = CANCELLED
    /\ last.cur = CANCELLED
    /\ last.reason = "None"
    /\ lastObs[last.id] = CANCELLED

\* C2 (as stated): the status file is written after each document, so when
\* a run is interrupted the file already holds the updated status of the
\* documents it has processed.
C2_SavedAfterEachDocument ==
    pc = "aborted" =>
        \A j \in 1..Len(processed) :
            /\ processed[j].id \in DOMAIN Persisted
            /\ Persisted[processed[j].id] = status_map[processed[j].id]

\* C2 (amended): the status file is written once in a run, on the step that
\* processes the last document, with the whole in-memory map; every other
\* step of a run, an interruption included, leaves the file as it was when
\* the run started.
C2_SavedOnceAtEnd ==
    [][/\ (~(pc = "loop" /\ pc' = "done") => status_file' = status_file)
       /\ (pc = "loop" /\ pc' = "done" =>
              status_file' = save_status_map(status_map'))]_vars

\* a run was interrupted after it had processed a document whose id the
\* file does not hold
C2_Witness ==
    /\ pc = "aborted"
    /\ Len(processed) >= 1
    /\ \E j \in 1..Len(processed) : processed[j].id \notin DOMAIN Persisted

\* C3: a document whose order id has no entry in the status map gives NEW,
\* whatever its raw status is.
C3_FirstSeenIsNew ==
    last.id # "" /\ last.stored = Absent => last.reason = "NEW_ANY"

\* a first-seen document with an unrecognized status was classified NEW
C3_Witness ==
    /\ last.id \in Ids
    /\ last.stored = Absent
    /\ last.first_seen
    /\ last.raw = JInt(3)
    /\ last.cur = None
    /\ last.reason = "NEW_ANY"

\* C4: for an order id already in the status map, the event is REOPENED
\* exactly when the stored status is Cancelled and the raw status normalizes
\* to Pending or Accepted.
C4_ReopenedIff ==
    last.id # "" /\ last.stored # Absent =>
        (last.reason = "REOPENED_TO_SALE"
            <=> last.stored = CANCELLED /\ normalize_status(last.raw) \in Sale)

\* a Cancelled order came back as Pending and was classified REOPENED
C4_Witness ==
    /\ last.id \in Ids
    /\ last.stored = CANCELLED
    /\ last.raw = Pending
    /\ last.reason = "REOPENED_TO_SALE"

\* C5: for an order id already in the status map, the event is CANCELLED
\* exactly when the stored status is Pending or Accepted and the raw status
\* normalizes to Cancelled, which raw -1 and raw 2 both do.
C5_CancelledIff ==
    last.id # "" /\ last.stored # Absent =>
        /\ (last.reason = "CANCELLED"
              <=> last.stored \in Sale /\ normalize_status(last.raw) = CANCELLED)
        /\ (last.stored \in Sale /\ last.raw \in {JInt(0 - 1), JInt(2)}
              => last.reason = "CANCELLED")

\* an Accepted order came back with the external code 2 and was classified
\* CANCELLED
C5_Witness ==
    /\ last.id \in Ids
    /\ last.stored = Accepted
    /\ last.raw = JInt(2)
    /\ last.cur = CANCELLED
    /\ last.reason = "CANCELLED"

\* the (stored, current) pairs that are a lifecycle transition
Reopens(d) == d.stored = CANCELLED /\ d.cur \in Sale
Cancels(d) == d.stored \in Sale /\ d.cur = CANCELLED

PersistRule ==
    LET doc == docs[idx]
        cur == normalize_status(doc.status)
    IN  IF cur # None
        THEN /\ doc.id \in DOMAIN status_map'
             /\ status_map'[doc.id] = cur
             /\ \A k \in DOMAIN status_map : k # doc.id =>
                    k \in DOMAIN status_map' /\ status_map'[k] = status_map[k]
        ELSE IF doc.id \notin DOMAIN status_map
        THEN /\ doc.id \in DOMAIN status_map'
             /\ status_map'[doc.id] = SEEN
             /\ \A k \in DOMAIN status_map :
                    k \in DOMAIN status_map' /\ status_map'[k] = status_map[k]
        ELSE status_map' = status_map

NewKinds == {"NEW_ANY", "NEW_ACCEPTED"}

C8_RepeatedObservationIdempotent ==
    pc = "loop" =>
        LET doc == docs[idx]
            d1 == Decide(status_map, doc, args)
            m1 == UpdateStatus(status_map, d1.id, d1.cur, d1.first_seen)
        IN  doc.id \in DOMAIN status_map
              /\ normalize_status(doc.status) = status_map[doc.id] =>
                /\ d1.reason = "None"
                /\ m1 = status_map
                /\ \A a2 \in ArgSets :
                      LET d2 == Decide(m1, doc, a2)
                          m2 == UpdateStatus(m1, d2.id, d2.cur, d2.first_seen)
                      IN  d2.reason = "None" /\ m2 = m1

\* the loop is at an order that the last completed run observed with the
\* status this run observes, and that the map holds with that status
C8_Witness ==
    /\ pc = "loop"
    /\ docs[idx].id \in DOMAIN status_map
    /\ docs[idx].status = JInt(2)
    /\ status_map[docs[idx].id] = CANCELLED
    /\ lastObs[docs[idx].id] = CANCELLED

\* what the entry of a processed document is after the run
EntryReflects(before, after, doc) ==
    LET cur == normalize_status(doc.status)
    IN  /\ doc.id \in DOMAIN after
        /\ after[doc.id] =
              IF cur # None THEN cur
              ELSE IF doc.id \in DOMAIN before THEN before[doc.id]
              ELSE SEEN

\* C9 (as stated): after any run, every order id the run observed has an
\* entry in the persisted map.
C9_EveryObservedIdHasEntry ==
    pc \in {"done", "aborted"} =>
        \A j \in 1..Len(processed) : processed[j].id \in DOMAIN Persisted

\* C9 (amended): after any run that completes, every order id the run
\* observed has an entry in the persisted map, sent or not: the normalized
\* status when it is recognized, else the marker for a first-seen id and
\* the previous entry for any other; a run that is interrupted persists
\* nothing; and no step removes a key from the persisted map.
C9_EntriesOfCompletedRuns ==
    [][/\ DOMAIN Persisted \subseteq DOMAIN load_status_map(status_file')
       /\ (pc = "loop" /\ pc' = "done" =>
              \A j \in 1..Len(processed') :
                  EntryReflects(Persisted, load_status_map(status_file'),
                                processed'[j]))
       /\ (pc' = "aborted" => status_file' = status_file)]_vars

\* a run that sends nothing has completed over two first-seen orders, and
\* the persisted map holds both
C9_Witness ==
    /\ pc = "done"
    /\ Len(processed) = 2
    /\ ~args.send_email
    /\ sends = 0
    /\ last.first_seen
    /\ \A j \in 1..Len(processed) : processed[j].id \in DOMAIN Persisted

RowsBuilt == npc = "out" /\ nres # Raised

C12_CoercionNeverAborts == exc # "ValueError"

\* the events of the loop body
Events == {"NEW_ANY", "NEW_ACCEPTED", "REOPENED_TO_SALE", "CANCELLED"}

\* C13: within one run, a pass of the loop over a document makes one send
\* attempt when sending is enabled and the document's event is NEW, REOPENED
\* or CANCELLED, and none otherwise; every attempt is the one of the document
\* the loop is on; an attempt that fails ends the run where it is, with no
\* further document processed, no further attempt and nothing saved.
C13_OneAttemptPerEvent ==
    [][/\ Processes =>
            /\ last'.id = docs[idx].id
            /\ sends' = sends + (IF args.send_email /\ last'.reason \in Events
                                 THEN 1 ELSE 0)
            /\ last'.reason \in Events \cup {"None"}
            /\ pc' = "done" \/ idx' = idx + 1
       /\ sends' > sends =>
            /\ sends' = sends + 1
            /\ args.send_email
            /\ last'.id = docs[idx].id
            /\ last'.reason \in Events
            /\ Processes \/ exc' = "SMTP"
       /\ exc' = "SMTP" =>
            /\ pc' = "aborted"
            /\ processed' = processed
            /\ status_file' = status_file
            /\ exc = "" => sends' = sends + 1
            /\ exc = "SMTP" => sends' = sends
       /\ pc = "aborted" => ~Processes /\ (sends' = sends \/ pc' = "fetch")
      ]_vars

\* a send has failed on the first of two documents, a NEW event, after which
\* the run has stopped with the second document not processed
C13_Witness ==
    /\ exc = "SMTP"
    /\ pc = "aborted"
    /\ Len(docs) = 2
    /\ idx = 1
    /\ processed = <<>>
    /\ sends = 1
    /\ last.reason = "NEW_ANY"

\* the candidate pack sizes, and those that divide q
Candidates == {36, 37, 35, 33, 31, 30}
Divisors(q) == {p \in Candidates : q % p = 0}

\* the inference has run on a quantity above 0 with neither an attribute
\* nor a pattern rule to go by
InferredFromQty ==
    /\ npc = "out"
    /\ extract_units_per_pallet(nval.attr) = 0
    /\ hint_units_per_pallet_by_pattern(nval.name) = 0
    /\ nval.qty > 0

\* C14: with no attribute and no pattern rule, a quantity above 0 that
\* exactly one candidate divides gets that candidate as pack size, with
\* confidence "divisible", no alternatives and leftover 0.
C14_SingleDivisor ==
    InferredFromQty /\ Cardinality(Divisors(nval.qty)) = 1 =>
        /\ \E p \in Divisors(nval.qty) : nres.upp = JFloat(10 * p)
        /\ nres.conf = "divisible"
        /\ nres.others = <<>>
        /\ nres.leftover = 0

\* 62 units: only 31 divides it
C14_Witness ==
    /\ InferredFromQty
    /\ nval.qty = 62
    /\ Divisors(nval.qty) = {31}
    /\ nres.upp = JFloat(310)
    /\ nres.conf = "divisible"

\* C15: with no attribute and no pattern rule, a quantity above 0 that two
\* or more candidates divide gets 36 when 36 divides it and the largest
\* dividing candidate otherwise, with confidence "ambiguous_divisible", the
\* other dividing candidates as alternatives, each once, and leftover 0.
C15_SeveralDivisors ==
    InferredFromQty /\ Cardinality(Divisors(nval.qty)) >= 2 =>
        LET D == Divisors(nval.qty)
            chosen == IF 36 \in D THEN 36
                      ELSE CHOOSE p \in D : \A r \in D : r <= p
        IN  /\ nres.upp = JFloat(10 * chosen)
            /\ nres.conf = "ambiguous_divisible"
            /\ {nres.others[i] : i \in 1..Len(nres.others)} = D \ {chosen}
            /\ Len(nres.others) = Cardinality(D) - 1
            /\ nres.leftover = 0

\* 1332 units: 36 and 37 divide it, 36 is preferred to the larger 37
C15_Witness ==
    /\ InferredFromQty
    /\ nval.qty = 1332
    /\ Divisors(nval.qty) = {36, 37}
    /\ nres.upp = JFloat(360)
    /\ nres.others = <<37>>

\* C16: with no attribute and no pattern rule, a quantity above 0 that no
\* candidate divides gets a candidate p of least remainder, the largest
\* one among those of least remainder, with confidence "closest", no
\* alternatives and leftover q mod p, which lies strictly between 0 and p.
C16_ClosestFit ==
    InferredFromQty /\ Divisors(nval.qty) = {} =>
        \E p \in Candidates :
            /\ nres.upp = JFloat(10 * p)
            /\ \A r \in Candidates :
                  /\ nval.qty % p <= nval.qty % r
                  /\ nval.qty % r = nval.qty % p => r <= p
            /\ nres.conf = "closest"
            /\ nres.others = <<>>
            /\ nres.leftover = nval.qty % p
            /\ 0 < nres.leftover /\ nres.leftover < p

\* 1 unit: every candidate leaves 1, the largest one, 37, is chosen
C16_Witness ==
    /\ InferredFromQty
    /\ nval.qty = 1
    /\ nres.upp = JFloat(370)
    /\ nres.conf = "closest"
    /\ nres.leftover = 1

\* C17: with no usable power attribute, the power is the largest in-range
\* number followed by W of the four texts taken together; when none of them
\* holds one, the largest in-range bare number of the four texts; when none
\* holds one either, 0.
C17_MaxOverAllTexts ==
    npc = "out" /\ ~UsablePower(nval.attr) =>
        LET all == nval.item_name \cup nval.item_sku \cup nval.name \cup nval.sku
            marked == {t.n : t \in {u \in all : u.w /\ InRange(u.n)}}
            bare == {t.n : t \in {u \in all : InRange(u.n)}}
        IN  nres = IF marked # {} THEN JFloat(10 * SetMax(marked))
                   ELSE IF bare # {} THEN JFloat(10 * SetMax(bare))
                   ELSE JFloat(0)

\* the ids of a list of documents
IdsOf(ds) == {ds[i].id : i \in 1..Len(ds)}

\* C18: in a run over a fetched list, the documents the loop goes through
\* have pairwise different ids, none of them empty; each is the first
\* document of the fetched list with its id; the loop takes them once each,
\* in order, so the run has at most one event and one send attempt per id;
\* the empty id enters neither the map of the run nor the persisted map.
C18_EachIdOnce ==
    pc \in {"loop", "done", "aborted"} =>
        /\ \A i, j \in 1..Len(docs) : docs[i].id = docs[j].id => i = j
        /\ \A i \in 1..Len(docs) :
              /\ docs[i].id # ""
              /\ \E k \in 1..Len(nval) :
                    /\ nval[k] = docs[i]
                    /\ \A h \in 1..(k - 1) : nval[h].id # docs[i].id
        /\ Len(docs) <= args.limit
        /\ args.limit >= Cardinality(IdsOf(nval) \ {""}) =>
              IdsOf(docs) = IdsOf(nval) \ {""}
        /\ Len(processed) <= Len(docs)
        /\ \A j \in 1..Len(processed) : processed[j] = docs[j]
        /\ sends <= Len(processed) + (IF exc = "SMTP" THEN 1 ELSE 0)
        /\ sends <= Cardinality(IdsOf(docs))
        /\ "" \notin DOMAIN status_map
        /\ "" \notin DOMAIN Persisted

\* the fetch has returned the same id twice, with two statuses: the run has
\* gone through the first of the two only and has sent for it once
C18_Witness ==
    /\ pc = "done"
    /\ Len(nval) = 2
    /\ nval[1].id = nval[2].id
    /\ nval[1] # nval[2]
    /\ processed = <<nval[1]>>
    /\ sends = 1

\* the step on which a run ends after its last document
RunEnds == pc = "loop" /\ pc' = "done"

\* the event the run that is ending gives id i
RunEvent(i) == RunDecision(i, processed', status_file, args).reason

\* the last CANCELLED or REOPENED event of id i in the completed runs so far
LastCR(i) ==
    IF evHist[i].cr = <<>> THEN "" ELSE evHist[i].cr[Len(evHist[i].cr)]

\* C19 as stated: over completed runs, a CANCELLED event of an id does not
\* follow a CANCELLED event of it with no REOPENED in between, a REOPENED
\* event does not follow a REOPENED event with no CANCELLED in between, and
\* a REOPENED event comes after a CANCELLED event or after a NEW event
\* observed with status Cancelled.
C19_StrictAlternation ==
    [][RunEnds =>
         \A i \in {Tracked} :
            /\ RunEvent(i) = "CANCELLED" => LastCR(i) # "C"
            /\ RunEvent(i) = "REOPENED_TO_SALE" =>
                  /\ LastCR(i) # "R"
                  /\ LastCR(i) = "C" \/ "N" \in evHist[i].pre
      ]_vars

\* C19: over completed runs, CANCELLED and REOPENED events of an id
\* alternate, and a REOPENED event comes after a CANCELLED event, after a
\* NEW event observed with status Cancelled, or after a run that has
\* replaced the "seen" marker of the id by Cancelled with no event.
C19_AlternationOrSilentCancel ==
    [][RunEnds =>
         \A i \in {Tracked} :
            /\ RunEvent(i) = "CANCELLED" => LastCR(i) # "C"
            /\ RunEvent(i) = "REOPENED_TO_SALE" =>
                  /\ LastCR(i) # "R"
                  /\ \/ LastCR(i) = "C"
                     \/ "N" \in evHist[i].pre
                     \/ "S" \in evHist[i].pre
      ]_vars

\* a completed run has given A1 a REOPENED event after a CANCELLED one
C19_Witness ==
    /\ pc = "done"
    /\ last.id = "A1"
    /\ last.reason = "REOPENED_TO_SALE"
    /\ evHist["A1"].cr = <<"C", "R">>
====
